---- MODULE Spec2Model ----
(***************************************************************************)
(* Model of the observable store of src/src/useFliptClient.tsx (useStore,  *)
(* FliptProvider, useFliptBoolean, useFliptVariant) and of the handle      *)
(* wrapper of src/src/wrapper.ts.                                          *)
(*                                                                         *)
(* Optional JavaScript values (null / undefined) are encoded as sequences: *)
(* None is the absent value and Some(x) the present one.                   *)
(*                                                                         *)
(* Every handler runs to completion on the single JavaScript thread, so    *)
(* each action is one whole handler.  initializeClient is declared async   *)
(* but contains no await: its body runs synchronously inside the effect.   *)
(* Listener callbacks are assumed not to throw.                            *)
(***************************************************************************)
EXTENDS Integers, Sequences, FiniteSets, TLC

\* ---------------------------------------------------------------- bounds
MaxHandles == 2
MaxSubs == 2
NumSnapshots == 2

Handles == 1..MaxHandles
Snapshots == 1..NumSnapshots

\* ------------------------------------------------------------- encodings
None == <<>>
Some(x) == <<x>>

\* options.updateInterval values a provider may be given (seconds)
UpdateIntervals == {None, Some(0)}

\* listener callbacks that consumers register
Listeners == {"plain", "adder", "remover"}

InSeq(x, seq) == \E i \in 1..Len(seq) : seq[i] = x
Without(seq, x) == SelectSeq(seq, LAMBDA y : y # x)

VARIABLES
  phase,          \* provider lifecycle: "rendered", "mounted", "unmounted"
  options,        \* options.updateInterval of the latest render
  firstInterval,  \* options.updateInterval captured by store.attach's closure
  renderClient,   \* store.client as read by the latest render (useCallback dep)
  client,         \* store.client
  isLoading,      \* store.isLoading
  error,          \* store.error
  listeners,      \* the listener Set, in insertion order
  mountedRef,     \* mountedRef.current
  intervalIdRef,  \* intervalIdRef.current
  lastHashRef,    \* lastHashRef.current
  timers,         \* interval timers the host still holds
  handles,        \* per handle: "unbuilt", "open" or "closed"
  closeCalls,     \* per handle: number of close() calls received
  subs,           \* subscriptions handed out by store.subscribe
  removed,        \* listeners unsubscribed since their latest subscribe
  detached,       \* detach() has been called with no attach() since
  attached,       \* attach() has been called with no detach() since
  op,             \* the handler that ran last
  constructed,    \* construction attempt of the last handler: none/ok/failed
  notified,       \* notification passes run by the last handler
  refreshed,      \* refresh calls made by the last handler, see RefreshCall
  events,         \* listener events of the last handler: <<kind, listener>>
  selected,       \* the latest accessor read: its inputs and what it returned
  ctorOptions,    \* the options object given to new FliptClient
  uniffiOptions   \* the options the constructor handed to the native client

storeVars == <<client, isLoading, error, listeners, mountedRef, intervalIdRef,
               lastHashRef, timers, handles, closeCalls, subs, removed,
               constructed, notified, refreshed, events>>
vars == <<phase, options, firstInterval, renderClient, detached, attached, op, storeVars,
          selected, ctorOptions, uniffiOptions>>

\* The store and its environment as one record, threaded through a handler.
Cur ==
  [client |-> client, isLoading |-> isLoading, error |-> error,
   listeners |-> listeners, mountedRef |-> mountedRef,
   intervalIdRef |-> intervalIdRef, lastHashRef |-> lastHashRef,
   timers |-> timers, handles |-> handles, closeCalls |-> closeCalls,
   subs |-> subs, removed |-> removed,
   constructed |-> "none", notified |-> 0, refreshed |-> <<>>, events |-> <<>>]

Commit(s) ==
  /\ client' = s.client
  /\ isLoading' = s.isLoading
  /\ error' = s.error
  /\ listeners' = s.listeners
  /\ mountedRef' = s.mountedRef
  /\ intervalIdRef' = s.intervalIdRef
  /\ lastHashRef' = s.lastHashRef
  /\ timers' = s.timers
  /\ handles' = s.handles
  /\ closeCalls' = s.closeCalls
  /\ subs' = s.subs
  /\ removed' = s.removed
  /\ constructed' = s.constructed
  /\ notified' = s.notified
  /\ refreshed' = s.refreshed
  /\ events' = s.events

\* ------------------------------------------------------ subscribe / notify
\* store.subscribe: listeners.add(listener); the returned closure is subs[n]
subscribe(s, l) ==
  [s EXCEPT !.listeners = IF InSeq(l, @) THEN @ ELSE Append(@, l),
            !.subs = Append(@, [listener |-> l, active |-> TRUE]),
            !.removed = @ \ {l},
            !.events = Append(@, <<"subscribe", l>>)]

\* the closure returned by store.subscribe: listeners.delete(listener)
unsubscribe(s, i) ==
  [s EXCEPT !.listeners = Without(@, s.subs[i].listener),
            !.subs[i].active = FALSE,
            !.removed = @ \cup {s.subs[i].listener},
            !.events = Append(@, <<"unsubscribe", s.subs[i].listener>>)]

ActiveSubsOf(s, l) ==
  {i \in 1..Len(s.subs) : s.subs[i].listener = l /\ s.subs[i].active}

\* What a listener does when it is called.  "adder" subscribes "plain" when
\* "plain" holds no subscription; "remover" calls the unsubscribe function of
\* the oldest live subscription of "plain"; "plain" only re-reads the store.
listenerBody(s, l) ==
  CASE l = "adder" ->
         IF ActiveSubsOf(s, "plain") = {} /\ Len(s.subs) < MaxSubs
         THEN subscribe(s, "plain") ELSE s
    [] l = "remover" ->
         IF ActiveSubsOf(s, "plain") # {}
         THEN unsubscribe(s, CHOOSE i \in ActiveSubsOf(s, "plain") :
                               \A j \in ActiveSubsOf(s, "plain") : i <= j)
         ELSE s
    [] OTHER -> s

\* forEach over a copy of the Set taken when the pass starts: every entry of
\* the copy is visited, whatever the callbacks delete
RECURSIVE forEachSnapshot(_, _)
forEachSnapshot(s, pending) ==
  IF pending = <<>> THEN s
  ELSE LET l == Head(pending)
           s1 == [s EXCEPT !.events = Append(@, <<"call", l>>)]
       IN forEachSnapshot(listenerBody(s1, l), Tail(pending))

\* Set.prototype.forEach: entries are visited in insertion order; an entry
\* deleted before it is reached is skipped, an entry added during the
\* iteration is visited.
RECURSIVE forEach(_, _)
forEach(s, pending) ==
  IF pending = <<>> THEN s
  ELSE LET l == Head(pending)
           s1 == [s EXCEPT !.events = Append(@, <<"call", l>>)]
           s2 == listenerBody(s1, l)
           kept == SelectSeq(Tail(pending), LAMBDA x : InSeq(x, s2.listeners))
           added == SelectSeq(s2.listeners, LAMBDA x : ~InSeq(x, s.listeners))
       IN forEach(s2, kept \o added)

notify(s) == forEach([s EXCEPT !.notified = @ + 1], s.listeners)

\* ------------------------------------------------------------- polling
NewTimerId(tm) == CHOOSE i \in 1..(Cardinality(tm) + 1) : i \notin tm

\* setupPolling without the mountedRef.current condition
setupPollingIgnoresMounted(s, u) ==
  LET interval == (IF u # None THEN u[1] ELSE 10) * 1000 IN
  IF /\ interval > 0
     /\ s.client # None
     /\ s.intervalIdRef = None
  THEN LET id == NewTimerId(s.timers) IN
       [s EXCEPT !.intervalIdRef = Some(id), !.timers = @ \cup {id}]
  ELSE s

\* setupPolling without the intervalIdRef.current === undefined condition
setupPollingNoIdCheck(s, u) ==
  LET interval == (IF u # None THEN u[1] ELSE 10) * 1000 IN
  IF /\ interval > 0
     /\ s.mountedRef
     /\ s.client # None
  THEN LET id == NewTimerId(s.timers) IN
       [s EXCEPT !.intervalIdRef = Some(id), !.timers = @ \cup {id}]
  ELSE s

\* setupPolling as closed over a render whose options.updateInterval is u
setupPolling(s, u) ==
  LET interval == (IF u # None THEN u[1] ELSE 10) * 1000 IN
  IF /\ interval > 0
     /\ s.mountedRef
     /\ s.client # None
     /\ s.intervalIdRef = None
  THEN LET id == NewTimerId(s.timers) IN
       [s EXCEPT !.intervalIdRef = Some(id), !.timers = @ \cup {id}]
  ELSE s

\* FliptClient.refresh: this.inner.refresh(previousHash || undefined)
refreshArg(previousHash) == IF previousHash = None THEN None ELSE previousHash

\* one store.client.refresh call: the handle, the previousHash it was given,
\* what it did, and what the getSnapshotHash after a "true" did
RefreshCall(h, previousHash, res, hashRes) ==
  [handle |-> h, previousHash |-> previousHash, result |-> res,
   hashRead |-> IF res = "true" THEN hashRes ELSE "none"]

\* the interval callback without notify() in the catch of the hash read
intervalCallbackSilentOnHashError(s, res, v, hashRes) ==
  IF s.client # None /\ s.mountedRef
  THEN LET h == s.client[1]
           s1 == [s EXCEPT !.refreshed =
                    Append(@, RefreshCall(h, refreshArg(s.lastHashRef), res, hashRes))]
       IN CASE res = "throws" -> [s1 EXCEPT !.lastHashRef = None]
            [] res = "false" -> s1
            [] OTHER ->
                 IF hashRes = "ok"
                 THEN notify([s1 EXCEPT !.lastHashRef = <<h, v>>])
                 ELSE s1
  ELSE s

\* the interval callback cancelling its timer when refresh fails
intervalCallbackStopsOnThrow(s, res, v, hashRes) ==
  IF s.client # None /\ s.mountedRef
  THEN LET h == s.client[1]
           s1 == [s EXCEPT !.refreshed =
                    Append(@, RefreshCall(h, refreshArg(s.lastHashRef), res, hashRes))]
       IN CASE res = "throws" ->
                 [s1 EXCEPT !.lastHashRef = None, !.timers = {}, !.intervalIdRef = None]
            [] res = "false" -> s1
            [] OTHER ->
                 IF hashRes = "ok"
                 THEN notify([s1 EXCEPT !.lastHashRef = <<h, v>>])
                 ELSE notify(s1)
  ELSE s

\* the interval callback with an empty outer catch: a failed refresh keeps the hash
intervalCallbackKeepsHashOnThrow(s, res, v, hashRes) ==
  IF s.client # None /\ s.mountedRef
  THEN LET h == s.client[1]
           s1 == [s EXCEPT !.refreshed =
                    Append(@, RefreshCall(h, refreshArg(s.lastHashRef), res, hashRes))]
       IN CASE res = "throws" -> s1
            [] res = "false" -> s1
            [] OTHER ->
                 IF hashRes = "ok"
                 THEN notify([s1 EXCEPT !.lastHashRef = <<h, v>>])
                 ELSE notify(s1)
  ELSE s

\* the setInterval callback; res is what refresh does ("true", "false",
\* "throws"), hashRes what getSnapshotHash does ("ok", "throws"), v the
\* snapshot the handle holds after a "true" (its hash is <<handle, v>>)
intervalCallback(s, res, v, hashRes) ==
  IF s.client # None /\ s.mountedRef
  THEN LET h == s.client[1]
           s1 == [s EXCEPT !.refreshed =
                    Append(@, RefreshCall(h, refreshArg(s.lastHashRef), res, hashRes))]
       IN CASE res = "throws" -> [s1 EXCEPT !.lastHashRef = None]
            [] res = "false" -> s1
            [] OTHER ->
                 IF hashRes = "ok"
                 THEN notify([s1 EXCEPT !.lastHashRef = <<h, v>>])
                 ELSE notify(s1)
  ELSE s

\* ------------------------------------------------------ attach / detach
attach(s, u) == setupPolling([s EXCEPT !.mountedRef = TRUE], u)

\* detach that cancels the timer but leaves mountedRef.current true
detachLeavesMounted(s) ==
  [s EXCEPT !.timers = IF s.intervalIdRef = None THEN @ ELSE @ \ {s.intervalIdRef[1]},
            !.intervalIdRef = None]

detach(s) ==
  [s EXCEPT !.mountedRef = FALSE,
            !.timers = IF s.intervalIdRef = None THEN @ ELSE @ \ {s.intervalIdRef[1]},
            !.intervalIdRef = None]

\* ------------------------------------------------ construction / teardown
FreshHandles(s) == {h \in Handles : s.handles[h] = "unbuilt"}
NewHandle(s) == CHOOSE h \in FreshHandles(s) : \A k \in FreshHandles(s) : h <= k

\* FliptClient.close
close(s, h) ==
  [s EXCEPT !.handles[h] = "closed", !.closeCalls[h] = @ + 1]

\* initializeClient that notifies both before and after setupPolling
initializeClientNotifiesTwice(s, u, res, v, hashRes) ==
  IF res = "ok"
  THEN LET h == NewHandle(s)
           s1 == [s EXCEPT !.handles[h] = "open",
                           !.client = Some(h), !.isLoading = FALSE,
                           !.constructed = "ok"]
           s2 == IF hashRes = "ok" THEN [s1 EXCEPT !.lastHashRef = <<h, v>>] ELSE s1
       IN notify(setupPolling(notify(s2), u))
  ELSE notify([s EXCEPT !.error = Some("ConstructionError"), !.isLoading = FALSE,
                        !.constructed = "failed"])

\* initializeClient of the construction effect, for a render whose
\* options.updateInterval is u; res is what new FliptClient does ("ok",
\* "throws"), v the snapshot a new handle holds, hashRes what the initial
\* getSnapshotHash does
initializeClient(s, u, res, v, hashRes) ==
  IF res = "ok"
  THEN LET h == NewHandle(s)
           s1 == [s EXCEPT !.handles[h] = "open",
                           !.client = Some(h), !.isLoading = FALSE,
                           !.constructed = "ok"]
           s2 == IF hashRes = "ok" THEN [s1 EXCEPT !.lastHashRef = <<h, v>>] ELSE s1
       IN notify(setupPolling(s2, u))
  ELSE notify([s EXCEPT !.error = Some("ConstructionError"), !.isLoading = FALSE,
                        !.constructed = "failed"])

\* teardown that closes the handle but keeps store.client
teardownKeepsClient(s) ==
  LET s1 == [s EXCEPT !.mountedRef = FALSE]
      s2 == IF s1.intervalIdRef # None
            THEN [s1 EXCEPT !.timers = @ \ {s1.intervalIdRef[1]}, !.intervalIdRef = None]
            ELSE s1
  IN IF s2.client # None THEN close(s2, s2.client[1]) ELSE s2

\* cleanup of the first effect of useStore
teardown(s) ==
  LET s1 == [s EXCEPT !.mountedRef = FALSE]
      s2 == IF s1.intervalIdRef # None
            THEN [s1 EXCEPT !.timers = @ \ {s1.intervalIdRef[1]}, !.intervalIdRef = None]
            ELSE s1
  IN IF s2.client # None
     THEN [close(s2, s2.client[1]) EXCEPT !.client = None]
     ELSE s2

\* ------------------------------------------------------------- accessors
\* Values the accessors are called with and what the handle's evaluate
\* operations do: None when the call throws, Some(response) otherwise.
BooleanResults == {None, Some([enabled |-> TRUE]), Some([enabled |-> FALSE])}
VariantResults == {None, Some([variantKey |-> "blue"]), Some([variantKey |-> "green"]),
                   Some([variantKey |-> ""])}
VariantFallbacks == {"control", ""}

Returned(x) == [threw |-> FALSE, value |-> x]
Threw == [threw |-> TRUE, value |-> None]

\* useFliptBoolean without the try/catch around evaluateBoolean
useFliptBooleanNoCatch(cl, loading, err, fallback, evalRes) ==
  IF cl # None /\ ~loading /\ err = None
  THEN IF evalRes # None THEN Returned(evalRes[1].enabled) ELSE Threw
  ELSE Returned(fallback)

\* the selector of useFliptBoolean; evalRes is what client.evaluateBoolean does
useFliptBoolean(cl, loading, err, fallback, evalRes) ==
  IF cl # None /\ ~loading /\ err = None
  THEN IF evalRes # None THEN Returned(evalRes[1].enabled) ELSE Returned(fallback)
  ELSE Returned(fallback)

\* the selector of useFliptVariant; evalRes is what client.evaluateVariant does
useFliptVariant(cl, loading, err, fallback, evalRes) ==
  IF cl # None /\ ~loading /\ err = None
  THEN IF evalRes # None THEN Returned(evalRes[1].variantKey) ELSE Returned(fallback)
  ELSE Returned(fallback)

\* selectorWrapper of useFliptSelector, the getSnapshot that
\* useSyncExternalStore calls at every read: it applies the selector to the
\* live store fields (here the selector that returns all three)
selectorWrapper(cl, loading, err) == <<cl, loading, err>>

\* ------------------------------------------------- FliptClient constructor
\* option values the constructor is given; a token is absent, empty or not
ClientTokens == {None, Some(""), Some("client-secret")}
JwtTokens == {None, Some(""), Some("jwt-secret")}
AuthenticationInputs ==
  {None} \cup {Some([client_token |-> c, jwt_token |-> j]) : c \in ClientTokens, j \in JwtTokens}
FetchModes == {None, Some("polling"), Some("streaming")}
CtorOptions ==
  [authentication : AuthenticationInputs,
   updateInterval : UpdateIntervals \cup {Some(10)},
   fetchMode : FetchModes]
NoOptions == [authentication |-> None, updateInterval |-> None, fetchMode |-> None]

\* JavaScript truthiness of an optional string / number
TruthyString(x) == x # None /\ x[1] # ""
TruthyNumber(x) == x # None /\ x[1] # 0

\* the jwt_token branch tested before the client_token branch
authenticationJwtFirst(o) ==
  IF o.authentication # None /\ TruthyString(o.authentication[1].jwt_token)
  THEN Some([kind |-> "JwtToken", token |-> o.authentication[1].jwt_token[1]])
  ELSE IF o.authentication # None /\ TruthyString(o.authentication[1].client_token)
  THEN Some([kind |-> "ClientToken", token |-> o.authentication[1].client_token[1]])
  ELSE None

\* the authentication the constructor builds from options.authentication
authentication(o) ==
  IF o.authentication # None /\ TruthyString(o.authentication[1].client_token)
  THEN Some([kind |-> "ClientToken", token |-> o.authentication[1].client_token[1]])
  ELSE IF o.authentication # None /\ TruthyString(o.authentication[1].jwt_token)
  THEN Some([kind |-> "JwtToken", token |-> o.authentication[1].jwt_token[1]])
  ELSE None

\* the UniffiClientOptions the constructor passes to the native client
FliptClientConstructor(o) ==
  [updateInterval |-> IF TruthyNumber(o.updateInterval) THEN o.updateInterval[1] ELSE 120,
   authentication |-> authentication(o),
   fetchMode |-> IF TruthyString(o.fetchMode) THEN o.fetchMode[1] ELSE "polling"]


\* --------------------------------------------------------------- actions
Init ==
  /\ phase = "rendered"
  /\ options \in UpdateIntervals
  /\ firstInterval = options
  /\ renderClient = None
  /\ client = None
  /\ isLoading = TRUE
  /\ error = None
  /\ listeners = <<>>
  /\ mountedRef = FALSE
  /\ intervalIdRef = None
  /\ lastHashRef = None
  /\ timers = {}
  /\ handles = [h \in Handles |-> "unbuilt"]
  /\ closeCalls = [h \in Handles |-> 0]
  /\ subs = <<>>
  /\ removed = {}
  /\ detached = FALSE
  /\ attached = FALSE
  /\ op = "init"
  /\ constructed = "none"
  /\ notified = 0
  /\ refreshed = <<>>
  /\ events = <<>>
  /\ selected = None
  /\ ctorOptions = NoOptions
  /\ uniffiOptions = None

CanConstruct(res) == res = "ok" => FreshHandles(Cur) # {}

\* The provider's effects run (first mount, or a re-mount that keeps the
\* component's refs and memoized store): mountedRef.current = true, the
\* construction effect, then FliptProvider's store.attach().
Mount ==
  /\ phase \in {"rendered", "unmounted"}
  /\ \E res \in {"ok", "throws"}, v \in Snapshots, hashRes \in {"ok", "throws"} :
       /\ CanConstruct(res)
       /\ Commit(attach(initializeClient([Cur EXCEPT !.mountedRef = TRUE],
                                         options, res, v, hashRes),
                        firstInterval))
  /\ phase' = "mounted"
  /\ detached' = FALSE
  /\ attached' = TRUE
  /\ op' = "mount"
  /\ UNCHANGED <<options, firstInterval, renderClient, selected, ctorOptions, uniffiOptions>>

\* The provider's effect cleanups run: teardown, isMounted = false,
\* then FliptProvider's store.detach().
Unmount ==
  /\ phase = "mounted"
  /\ Commit(detach(teardown(Cur)))
  /\ phase' = "unmounted"
  /\ detached' = TRUE
  /\ attached' = FALSE
  /\ op' = "unmount"
  /\ UNCHANGED <<options, firstInterval, renderClient, selected, ctorOptions, uniffiOptions>>

\* The provider renders again.  newObject: the options prop is a new object;
\* u: its updateInterval.  setupPolling is re-created when updateInterval or
\* the store.client read by the render differs from the previous render, and
\* the construction effect re-runs when options or setupPolling changed.
Rerender ==
  /\ phase = "mounted"
  /\ \E newObject \in BOOLEAN, u \in UpdateIntervals :
       /\ ~newObject => u = options
       /\ options' = u
       /\ renderClient' = client
       /\ IF newObject \/ u # options \/ client # renderClient
          THEN \E res \in {"ok", "throws"}, v \in Snapshots, hashRes \in {"ok", "throws"} :
                 /\ CanConstruct(res)
                 /\ Commit(initializeClient(Cur, u, res, v, hashRes))
          ELSE Commit(Cur)
  /\ op' = "render"
  /\ UNCHANGED <<phase, firstInterval, detached, attached, selected, ctorOptions, uniffiOptions>>

Attach ==
  /\ Commit(attach(Cur, firstInterval))
  /\ detached' = FALSE
  /\ attached' = TRUE
  /\ op' = "attach"
  /\ UNCHANGED <<phase, options, firstInterval, renderClient, selected, ctorOptions, uniffiOptions>>

Detach ==
  /\ Commit(detach(Cur))
  /\ detached' = TRUE
  /\ attached' = FALSE
  /\ op' = "detach"
  /\ UNCHANGED <<phase, options, firstInterval, renderClient, selected, ctorOptions, uniffiOptions>>

\* One timer interval elapses: the host runs the callback of a timer it
\* still holds, if there is one.
Tick ==
  /\ IF timers = {}
     THEN Commit(Cur)
     ELSE \E t \in timers, res \in {"true", "false", "throws"},
             v \in Snapshots, hashRes \in {"ok", "throws"} :
            /\ res = "true" => (client # None => <<client[1], v>> # lastHashRef)
            /\ Commit(intervalCallback(Cur, res, v, hashRes))
  /\ op' = "tick"
  /\ UNCHANGED <<phase, options, firstInterval, renderClient, detached, attached, selected, ctorOptions, uniffiOptions>>

SubscribeOf(L) ==
  /\ Len(subs) < MaxSubs
  /\ \E l \in L : Commit(subscribe(Cur, l))
  /\ op' = "subscribe"
  /\ UNCHANGED <<phase, options, firstInterval, renderClient, detached, attached, selected, ctorOptions, uniffiOptions>>

\* a consumer hook (useSyncExternalStore) subscribes: its callback only
\* schedules a re-read of the store
Subscribe == SubscribeOf({"plain"})

\* any caller of store.subscribe, with a callback that may itself subscribe
\* or unsubscribe
SubscribeListener == SubscribeOf(Listeners)

Unsubscribe ==
  /\ \E i \in 1..Len(subs) : Commit(unsubscribe(Cur, i))
  /\ op' = "unsubscribe"
  /\ UNCHANGED <<phase, options, firstInterval, renderClient, detached, attached, selected, ctorOptions, uniffiOptions>>

Next ==
  \/ Mount
  \/ Unmount
  \/ Rerender
  \/ Attach
  \/ Detach
  \/ Tick
  \/ Subscribe
  \/ Unsubscribe

Spec == Init /\ [][Next]_vars

\* The subscribe / notify contract with listeners of every kind, under the
\* handlers that mount, unmount and poll the store.
ListenerNext ==
  \/ Mount
  \/ Unmount
  \/ Tick
  \/ SubscribeListener
  \/ Unsubscribe

ListenerSpec == Init /\ [][ListenerNext]_vars

\* ---------------------------------------------- accessors over any store
\* The accessors are pure functions of the store fields and of the evaluate
\* outcome: AccessorSpec applies them to every combination of store fields.
storeFrame == <<phase, options, firstInterval, renderClient, detached, attached, storeVars,
                ctorOptions, uniffiOptions>>

AccessorInit ==
  /\ phase = "mounted"
  /\ options = None
  /\ firstInterval = None
  /\ renderClient = None
  /\ client \in {None, Some(1)}
  /\ isLoading \in BOOLEAN
  /\ error \in {None, Some("ConstructionError")}
  /\ listeners = <<>>
  /\ mountedRef = TRUE
  /\ intervalIdRef = None
  /\ lastHashRef = None
  /\ timers = {}
  /\ handles = [h \in Handles |-> IF client = Some(h) THEN "open" ELSE "unbuilt"]
  /\ closeCalls = [h \in Handles |-> 0]
  /\ subs = <<>>
  /\ removed = {}
  /\ detached = FALSE
  /\ attached = FALSE
  /\ op = "init"
  /\ constructed = "none"
  /\ notified = 0
  /\ refreshed = <<>>
  /\ events = <<>>
  /\ selected = None
  /\ ctorOptions = NoOptions
  /\ uniffiOptions = None

ReadBoolean ==
  /\ \E fallback \in BOOLEAN, evalRes \in BooleanResults :
       selected' = Some([hook |-> "useFliptBoolean", fallback |-> fallback,
                         evalRes |-> evalRes,
                         result |-> useFliptBoolean(client, isLoading, error,
                                                    fallback, evalRes)])
  /\ op' = "read"
  /\ UNCHANGED storeFrame

ReadVariant ==
  /\ \E fallback \in VariantFallbacks, evalRes \in VariantResults :
       selected' = Some([hook |-> "useFliptVariant", fallback |-> fallback,
                         evalRes |-> evalRes,
                         result |-> useFliptVariant(client, isLoading, error,
                                                    fallback, evalRes)])
  /\ op' = "read"
  /\ UNCHANGED storeFrame

AccessorNext ==
  \/ ReadBoolean
  \/ ReadVariant

AccessorSpec == AccessorInit /\ [][AccessorNext]_vars

\* ------------------------------------------- the constructor on any options
\* new FliptClient(options) converts its options for the native client:
\* WrapperSpec applies the conversion to every options object of CtorOptions.
WrapperInit ==
  /\ phase = "rendered"
  /\ options = None
  /\ firstInterval = None
  /\ renderClient = None
  /\ client = None
  /\ isLoading = TRUE
  /\ error = None
  /\ listeners = <<>>
  /\ mountedRef = FALSE
  /\ intervalIdRef = None
  /\ lastHashRef = None
  /\ timers = {}
  /\ handles = [h \in Handles |-> IF client = Some(h) THEN "open" ELSE "unbuilt"]
  /\ closeCalls = [h \in Handles |-> 0]
  /\ subs = <<>>
  /\ removed = {}
  /\ detached = FALSE
  /\ attached = FALSE
  /\ op = "init"
  /\ constructed = "none"
  /\ notified = 0
  /\ refreshed = <<>>
  /\ events = <<>>
  /\ selected = None
  /\ ctorOptions \in CtorOptions
  /\ uniffiOptions = None

Construct ==
  /\ uniffiOptions = None
  /\ uniffiOptions' = Some(FliptClientConstructor(ctorOptions))
  /\ op' = "construct"
  /\ UNCHANGED <<phase, options, firstInterval, renderClient, detached, attached, storeVars,
                 selected, ctorOptions>>

WrapperNext == Construct

WrapperSpec == WrapperInit /\ [][WrapperNext]_vars

\* ================================================================ claims
LiveHandles == {h \in Handles : handles[h] = "open"}
BuiltHandles == {h \in Handles : handles[h] # "unbuilt"}
CallsOf(ev, l) == {j \in 1..Len(ev) : ev[j] = <<"call", l>>}

\* C1: in every reachable state at most one handle the Store constructed is
\* live (constructed and not yet closed).
C1_AtMostOneLiveHandle == Cardinality(LiveHandles) <= 1

\* C2: every handle the Store constructs is closed exactly once: after the
\* provider is unmounted each constructed handle has received close(), and
\* no handle ever receives close() twice.
C2_ClosedExactlyOnce ==
  /\ phase = "unmounted" => \A h \in BuiltHandles : closeCalls[h] = 1
  /\ \A h \in Handles : closeCalls[h] <= 1

\* C3: useFliptBoolean and useFliptVariant return the fallback when the
\* handle is absent, isLoading is true, error is set or the evaluate call
\* throws, return the enabled / variantKey field of the response otherwise,
\* and never throw.
C3_AccessorFallback ==
  selected # None =>
    LET r == selected[1]
        useFallback == client = None \/ isLoading \/ error # None \/ r.evalRes = None
    IN /\ ~r.result.threw
       /\ useFallback => r.result.value = r.fallback
       /\ (~useFallback /\ r.hook = "useFliptBoolean") =>
            r.result.value = r.evalRes[1].enabled
       /\ (~useFallback /\ r.hook = "useFliptVariant") =>
            r.result.value = r.evalRes[1].variantKey

\* C3 witness: a usable store whose evaluate call throws, answered by the fallback
C3_Witness ==
  /\ selected # None
  /\ client # None /\ ~isLoading /\ error = None
  /\ selected[1].evalRes = None
  /\ selected[1].result = Returned(selected[1].fallback)

\* C4: after detach() and until attach() is called again, an elapsed timer
\* interval makes no refresh call and no notification, and no timer is held.
C4_DetachedNoPolling ==
  detached => /\ timers = {}
              /\ op = "tick" => (refreshed = <<>> /\ notified = 0)

\* C4 witness: an interval elapsed after detach() on a store that has a handle
C4_Witness ==
  /\ detached /\ op = "tick"
  /\ phase = "mounted" /\ client # None /\ options = None /\ firstInterval = None

\* C5: after unmount no tick calls refresh or notifies, even if attach() is
\* called on the stale store: the timer is cancelled and the handle
\* reference cleared.
C5_UnmountedNoPolling ==
  phase = "unmounted" =>
    /\ timers = {} /\ intervalIdRef = None /\ client = None
    /\ op = "tick" => (refreshed = <<>> /\ notified = 0)

\* C5 witness: an interval elapsed after unmount and a later attach()
C5_Witness ==
  /\ phase = "unmounted" /\ op = "tick"
  /\ ~detached /\ mountedRef
  /\ firstInterval = None
  /\ \E h \in Handles : handles[h] = "closed"

\* some call in ev reaches a listener whose unsubscribe function was called
\* after its latest subscribe (rem: the listeners so unsubscribed before ev)
CalledAfterUnsubscribe(ev, rem) ==
  \E j \in 1..Len(ev) :
    /\ ev[j][1] = "call"
    /\ LET l == ev[j][2]
           prior == {i \in 1..(j - 1) :
                       ev[i][2] = l /\ ev[i][1] \in {"subscribe", "unsubscribe"}}
       IN IF prior = {}
          THEN l \in rem
          ELSE ev[CHOOSE i \in prior : \A k \in prior : k <= i][1] = "unsubscribe"

\* C6: once a listener's unsubscribe function has been called the listener
\* is not invoked again, also when the call comes from another listener in
\* a notification pass that has not reached the unsubscribed listener yet.
C6_NoCallAfterUnsubscribe == [][~CalledAfterUnsubscribe(events', removed)]_vars

\* C6 witness: "remover" was subscribed before "plain"; the pass called
\* "remover", which unsubscribed "plain", and ended without calling "plain"
C6_Witness ==
  /\ Len(subs) = 2
  /\ subs[1].listener = "remover" /\ subs[2].listener = "plain"
  /\ notified = 1
  /\ events = << <<"call", "remover">>, <<"unsubscribe", "plain">> >>

\* C7: calling the unsubscribe function of one subscription never stops
\* another still-active subscription from receiving notifications: every
\* subscription whose own unsubscribe was not called is in the listener set.
C7_SubscriptionsIndependent ==
  \A i \in 1..Len(subs) : subs[i].active => InSeq(subs[i].listener, listeners)

\* C8: isLoading never returns to true, and a successful construction
\* leaves isLoading false and runs exactly one notification pass, in which
\* no listener is called twice.
C8_LoadingOnceNotifyOnce ==
  [][/\ ~isLoading => ~isLoading'
     /\ constructed' = "ok" =>
          /\ ~isLoading'
          /\ notified' = 1
          /\ \A l \in Listeners : Cardinality(CallsOf(events', l)) <= 1]_vars

\* C8 witness: the first construction succeeded and its pass called a listener
C8_Witness ==
  /\ constructed = "ok" /\ op = "mount" /\ ~isLoading /\ notified = 1
  /\ CallsOf(events, "plain") # {}

\* C9: a failed construction leaves error set, isLoading false and the
\* handle empty, notifies exactly once and starts no timer.
C9_FailedConstruction ==
  [][constructed' = "failed" =>
       /\ error' # None
       /\ ~isLoading'
       /\ client' = None
       /\ notified' = 1
       /\ timers' \subseteq timers]_vars

\* C10: after a construction has failed the Store makes no other
\* construction attempt, acquires no handle and starts no timer, and error
\* stays set.
C10_FailureTerminal ==
  [][error # None =>
       /\ constructed' = "none"
       /\ handles' = handles
       /\ timers' \subseteq timers
       /\ error' = error]_vars

\* the refresh call of the last handler, when it was a poll tick that made one
Polled == op = "tick" /\ refreshed # <<>>

\* C11: on a tick lastHashRef is assigned the hash read from the handle when
\* refresh returned true and getSnapshotHash succeeded, is cleared when
\* refresh failed, and is unchanged otherwise; it changes in no other way
\* than these and the initial hash read of a construction.
C11_HashUpdates ==
  [][/\ (op' = "tick" /\ refreshed' # <<>>) =>
          LET r == refreshed'[1] IN
          CASE r.result = "true" /\ r.hashRead = "ok" ->
                 lastHashRef' # None /\ lastHashRef'[1] = r.handle
            [] r.result = "throws" -> lastHashRef' = None
            [] OTHER -> lastHashRef' = lastHashRef
     /\ lastHashRef' # lastHashRef =>
          \/ /\ op' = "tick" /\ refreshed' # <<>>
             /\ \/ refreshed'[1].result = "throws" /\ lastHashRef' = None
                \/ /\ refreshed'[1].result = "true" /\ refreshed'[1].hashRead = "ok"
                   /\ lastHashRef' # None
          \/ constructed' = "ok" /\ lastHashRef' # None]_vars

\* C11 witness: a refresh reported a change, the hash read succeeded and
\* the stored hash was replaced by the one read from the polled handle
C11_Witness ==
  /\ Polled
  /\ refreshed[1].result = "true" /\ refreshed[1].hashRead = "ok"
  /\ refreshed[1].previousHash # None
  /\ lastHashRef # refreshed[1].previousHash
  /\ lastHashRef[1] = refreshed[1].handle

\* C12: a timer is held, and a tick calls refresh, only while the store is
\* attached and holds a constructed handle.
C12_PollingOnlyAttachedWithHandle ==
  /\ timers # {} => (attached /\ client # None)
  /\ Polled => /\ attached
               /\ client = Some(refreshed[1].handle)
               /\ handles[refreshed[1].handle] = "open"

\* C12 witness: a tick refreshed the open handle of an attached, mounted
\* store that holds no hash
C12_Witness ==
  /\ Polled /\ attached /\ phase = "mounted"
  /\ handles[refreshed[1].handle] = "open"
  /\ lastHashRef = None

\* C13: at most one timer is held at any time, it is the one intervalIdRef
\* names, and an elapsed interval makes at most one refresh call.
C13_AtMostOneTimer ==
  /\ Cardinality(timers) <= 1
  /\ timers = (IF intervalIdRef = None THEN {} ELSE {intervalIdRef[1]})
  /\ Len(refreshed) <= 1

\* C13 witness: a second construction completed while the store was
\* attached and polling, and one timer is held
C13_Witness ==
  /\ op = "render" /\ constructed = "ok"
  /\ attached /\ firstInterval = None /\ options = None
  /\ Cardinality(LiveHandles) = 2
  /\ Cardinality(timers) = 1

\* the interval computed from an updateInterval u lets setupPolling start a timer
PollingEnabled(u) == (IF u # None THEN u[1] ELSE 10) * 1000 > 0

\* detach() leaves the handle, isLoading, error, the hash and the listeners
\* alone, ends with the store inactive and no timer, and changes nothing
\* when the store is already detached
DetachFrame ==
  op' = "detach" =>
    /\ client' = client /\ handles' = handles /\ closeCalls' = closeCalls
    /\ isLoading' = isLoading /\ error' = error
    /\ lastHashRef' = lastHashRef /\ listeners' = listeners
    /\ ~mountedRef' /\ timers' = {} /\ intervalIdRef' = None
    /\ detached => (mountedRef' = mountedRef /\ timers' = timers
                    /\ intervalIdRef' = intervalIdRef)

\* attach() constructs nothing and keeps the handle
AttachKeepsHandle ==
  op' = "attach" =>
    constructed' = "none" /\ client' = client /\ handles' = handles

\* C14: detach() only marks the store inactive and cancels the timer, a
\* second detach() changes nothing, and a later attach() resumes polling on
\* the same handle (when the configured interval enables polling) without
\* constructing a new one.
C14_DetachThenAttach ==
  [][/\ DetachFrame
     /\ AttachKeepsHandle
     /\ (op' = "attach" /\ detached /\ client # None /\ PollingEnabled(options)) =>
          (timers' # {} /\ mountedRef')]_vars

\* C15: the value a selector returns changes only after the Store has
\* notified its listeners: a handler that changes what selectorWrapper
\* returns runs a notification pass.
C15_SelectorStableWithoutNotify ==
  [][selectorWrapper(client', isLoading', error') # selectorWrapper(client, isLoading, error)
       => notified' >= 1]_vars

\* the tokens given to the constructor and the authentication it produced
GivenClientToken ==
  IF ctorOptions.authentication = None THEN None
  ELSE ctorOptions.authentication[1].client_token
GivenJwtToken ==
  IF ctorOptions.authentication = None THEN None
  ELSE ctorOptions.authentication[1].jwt_token
ClientTokenAuth(t) == Some([kind |-> "ClientToken", token |-> t])
JwtTokenAuth(t) == Some([kind |-> "JwtToken", token |-> t])

\* C16 as stated: a client token that is present (empty or not) yields
\* ClientToken, otherwise a present JWT yields JwtToken, otherwise none.
C16_FirstPresentWins ==
  uniffiOptions # None =>
    uniffiOptions[1].authentication =
      (IF GivenClientToken # None THEN ClientTokenAuth(GivenClientToken[1])
       ELSE IF GivenJwtToken # None THEN JwtTokenAuth(GivenJwtToken[1])
       ELSE None)

\* C16 amended: a non-empty client token yields ClientToken, otherwise a
\* non-empty JWT yields JwtToken, otherwise none; an empty token counts as
\* absent, and the two kinds are never used together.
C16_FirstNonEmptyWins ==
  uniffiOptions # None =>
    LET hasClient == GivenClientToken \notin {None, Some("")}
        hasJwt == GivenJwtToken \notin {None, Some("")}
    IN uniffiOptions[1].authentication =
         (IF hasClient THEN ClientTokenAuth(GivenClientToken[1])
          ELSE IF hasJwt THEN JwtTokenAuth(GivenJwtToken[1])
          ELSE None)

\* C16 witness: both tokens given and non-empty, the client token was used
C16_Witness ==
  /\ uniffiOptions # None
  /\ GivenClientToken = Some("client-secret") /\ GivenJwtToken = Some("jwt-secret")
  /\ uniffiOptions[1].authentication = ClientTokenAuth("client-secret")

\* the store fields and refs a handler can change
StoreFields == <<client, isLoading, error, listeners, mountedRef, intervalIdRef,
                 lastHashRef, timers, handles, closeCalls>>

\* C17: a tick notifies exactly once (one pass, each listener of the Set
\* called once) when refresh reports true, whether or not the hash read
\* succeeds, and not at all when refresh reports false or fails; a tick
\* whose refresh reports false changes no Store state.
C17_TickNotifications ==
  [][(op' = "tick" /\ refreshed' # <<>>) =>
       LET r == refreshed'[1] IN
       /\ r.result = "true" =>
            /\ notified' = 1
            /\ \A l \in Listeners :
                 Cardinality(CallsOf(events', l)) = (IF InSeq(l, listeners) THEN 1 ELSE 0)
       /\ r.result # "true" => (notified' = 0 /\ events' = <<>>)
       /\ r.result = "false" => StoreFields' = StoreFields]_vars

\* C17 witness: refresh reported a change, the hash read failed, and the
\* subscribed listener was still called in one pass
C17_Witness ==
  /\ Polled
  /\ refreshed[1].result = "true" /\ refreshed[1].hashRead = "throws"
  /\ notified = 1
  /\ events = << <<"call", "plain">> >>

\* C18: a failed refresh keeps the timer, leaves error alone, does not
\* notify and clears the hash; when the next handler is again a tick it
\* calls refresh on the same handle with an absent previous hash.
C18_RefreshFailureTransient ==
  [][/\ (op' = "tick" /\ refreshed' # <<>> /\ refreshed'[1].result = "throws") =>
          /\ timers' = timers /\ timers' # {}
          /\ intervalIdRef' = intervalIdRef
          /\ error' = error /\ client' = client
          /\ notified' = 0
          /\ lastHashRef' = None
     /\ (Polled /\ refreshed[1].result = "throws" /\ op' = "tick") =>
          /\ refreshed' # <<>>
          /\ refreshed'[1].handle = refreshed[1].handle
          /\ refreshed'[1].previousHash = None]_vars

\* C18 witness: a refresh called with an absent previous hash failed and
\* the timer, the handle and the empty error are still in place
C18_Witness ==
  /\ Polled
  /\ refreshed[1].result = "throws" /\ refreshed[1].previousHash = None
  /\ timers # {} /\ client # None /\ error = None /\ lastHashRef = None

\* the listeners called by the handler whose events are ev, in call order
Visited(ev) ==
  LET calls == SelectSeq(ev, LAMBDA e : e[1] = "call")
  IN [i \in 1..Len(calls) |-> calls[i][2]]

\* C19: a notification pass visits exactly the listeners that were in the
\* Set when the pass started, in order, whatever the callbacks subscribe or
\* unsubscribe during the pass.
C19_PassVisitsSnapshot == [][notified' = 1 => Visited(events') = listeners]_vars

\* C20: a tick passes to refresh either no previous hash or a hash that was
\* read from the handle it refreshes.
C20_PreviousHashFromSameHandle ==
  Polled => \/ refreshed[1].previousHash = None
            \/ refreshed[1].previousHash[1] = refreshed[1].handle

TypeOK ==
  /\ phase \in {"rendered", "mounted", "unmounted"}
  /\ isLoading \in BOOLEAN
  /\ mountedRef \in BOOLEAN
  /\ \A h \in Handles : handles[h] \in {"unbuilt", "open", "closed"}
====
